---- MODULE Spec2Model ----
(***************************************************************************)
(* Model of rosidl_runtime_rs::sequence: Sequence<T>, BoundedSequence<T,N> *)
(* and SequenceIterator<T> over a scalar element type, on top of a heap of *)
(* backend-managed buffers.  Memory is a finite map from buffer ids to     *)
(* buffers; a header is the (data, size, capacity) triple of the struct.   *)
(***************************************************************************)
EXTENDS Integers, Sequences, FiniteSets, TLC

\* ------------------------------------------------------------------ bounds
\* The longest source handed to extend or collect, the largest logical size
\* a sequence is grown to, the number of buffer addresses, the bound N of
\* BoundedSequence<T, N>, and the most nodes made from one context.
MaxLen == 2
MaxSize == 3
MaxBufs == 5
N == 3
MaxNodes == 2
MaxGrow == 5

\* The element type: its default (zero) value and one other value.
Elem == {0, 1}
\* The bit pattern of memory that was allocated and never written.
Garbage == 0 - 1
BufIds == 1..MaxBufs
Slots == {"x", "y"}

Min(a, b) == IF a < b THEN a ELSE b

\* Lists of elements of length at most n.
RECURSIVE ListsUpTo(_)
ListsUpTo(n) ==
    IF n = 0 THEN {<<>>}
    ELSE LET shorter == ListsUpTo(n - 1)
         IN  shorter \cup {Append(l, e) : l \in {s \in shorter : Len(s) = n - 1}, e \in Elem}

Take(l, n) == SubSeq(l, 1, Min(n, Len(l)))

\* ------------------------------------------------------------ the heap
\* struct Sequence { data, size, capacity }; data = 0 is the null pointer.
Header(d, s, c) == [data |-> d, size |-> s, capacity |-> c]

\* Default for Sequence<T>::default
SequenceDefault == Header(0, 0, 0)

\* A buffer address: whether a buffer lives there, its elements, and how
\* often a fini released it while no buffer lived there (a double free).
FreeBuf == [live |-> FALSE, cells |-> <<>>, refinis |-> 0]

EmptyHeap == [b \in BufIds |-> FreeBuf]

HasFreeId(h) == \E b \in BufIds : ~h[b].live

\* The allocator hands out the lowest address that is not in use.
FreeId(h) == CHOOSE b \in BufIds : ~h[b].live /\ \A c \in BufIds : c < b => h[c].live

Fill(n, v) == [i \in 1..n |-> v]

\* A record operators return: the heap, the header they worked on, whether
\* the call ended in its panic, and whether it wrote through a null pointer.
Outcome(h, hdr, failed, nullWrite) ==
    [heap |-> h, hdr |-> hdr, failed |-> failed, nullWrite |-> nullWrite]

MallocAt(h, n, b) ==
    [heap |-> [h EXCEPT ![b] = [live |-> TRUE, cells |-> Fill(n, Garbage),
                                refinis |-> h[b].refinis]],
     ptr |-> b]

\* libc::realloc / the foreign allocator on a null pointer: a fresh buffer
\* of n uninitialised elements.
Malloc(h, n) == MallocAt(h, n, FreeId(h))

\* libc::realloc on a buffer: n elements, the old ones kept.
Realloc(h, ptr, n) ==
    [heap |-> [h EXCEPT ![ptr].cells =
                  [i \in 1..n |-> IF i <= Len(h[ptr].cells) THEN h[ptr].cells[i] ELSE Garbage]],
     ptr |-> ptr]

InitAllocated(m, size) == [heap |-> m.heap, hdr |-> Header(m.ptr, size, size), ret |-> TRUE]

\* rosidl_runtime_c__<T>__Sequence__init: no buffer for size 0; on
\* allocation failure (ok = FALSE) the header is left untouched.
ForeignInit(h, hdr, size, ok) ==
    IF size = 0 THEN [heap |-> h, hdr |-> Header(0, 0, 0), ret |-> TRUE]
    ELSE IF ~ok THEN [heap |-> h, hdr |-> hdr, ret |-> FALSE]
    ELSE InitAllocated(Malloc(h, size), size)

\* rosidl_runtime_c__<T>__Sequence__fini: releases the buffer and nulls the
\* header; a no-op on a header without a buffer.
ForeignFini(h, hdr) ==
    IF hdr.data = 0 THEN [heap |-> h, hdr |-> hdr]
    ELSE [heap |-> [h EXCEPT ![hdr.data] =
                        [live |-> FALSE, cells |-> <<>>,
                         refinis |-> IF h[hdr.data].live THEN h[hdr.data].refinis
                                     ELSE h[hdr.data].refinis + 1]],
          hdr |-> Header(0, 0, 0)]

\* std::ptr::write_bytes(seq.data, 0, size)
WriteBytesZero(h, ptr, size) ==
    IF ptr = 0 \/ size = 0 THEN h
    ELSE [h EXCEPT ![ptr].cells =
              [i \in 1..Len(h[ptr].cells) |-> IF i <= size THEN 0 ELSE h[ptr].cells[i]]]

\* The zero fill that follows the foreign init, whatever it returned.
ZeroFilled(r, size) ==
    [heap |-> WriteBytesZero(r.heap, r.hdr.data, size),
     hdr |-> r.hdr,
     ret |-> r.ret,
     nullWrite |-> (r.hdr.data = 0 /\ size > 0)]

\* SequenceAlloc::sequence_init for a scalar type.  nullWrite records the
\* write through a null data pointer that follows a failed foreign init.
sequence_init(h, hdr, size, ok) == ZeroFilled(ForeignInit(h, hdr, size, ok), size)

\* SequenceAlloc::sequence_fini
sequence_fini(h, hdr) == ForeignFini(h, hdr)

\* libc::memcpy of in_seq's elements into the buffer m, and the size update.
Memcpy(h, in_seq, m, cap) ==
    [heap |-> IF in_seq.size = 0 THEN m.heap
              ELSE [m.heap EXCEPT ![m.ptr].cells =
                       [i \in 1..Len(m.heap[m.ptr].cells) |->
                           IF i <= in_seq.size THEN h[in_seq.data].cells[i]
                           ELSE m.heap[m.ptr].cells[i]]],
     hdr |-> Header(m.ptr, in_seq.size, cap),
     ret |-> TRUE]

\* A copy that hands out the source's own buffer.
sequence_copy_Shallow(h, in_seq, out_seq, ok) == [heap |-> h, hdr |-> in_seq, ret |-> TRUE]

\* A copy that shrinks the destination's buffer to fit when it was larger.
sequence_copy_Fit(h, in_seq, out_seq, ok) ==
    IF out_seq.capacity # in_seq.size /\ in_seq.size > 0
    THEN IF ~ok THEN [heap |-> h, hdr |-> out_seq, ret |-> FALSE]
         ELSE IF out_seq.data = 0
         THEN Memcpy(h, in_seq, Malloc(h, in_seq.size), in_seq.size)
         ELSE Memcpy(h, in_seq, Realloc(h, out_seq.data, in_seq.size), in_seq.size)
    ELSE Memcpy(h, in_seq, [heap |-> h, ptr |-> out_seq.data], out_seq.capacity)

\* SequenceAlloc::sequence_copy for a scalar type.
sequence_copy(h, in_seq, out_seq, ok) ==
    IF out_seq.capacity < in_seq.size
    THEN IF ~ok THEN [heap |-> h, hdr |-> out_seq, ret |-> FALSE]
         ELSE IF out_seq.data = 0
         THEN Memcpy(h, in_seq, Malloc(h, in_seq.size), in_seq.size)
         ELSE Memcpy(h, in_seq, Realloc(h, out_seq.data, in_seq.size), in_seq.size)
    ELSE Memcpy(h, in_seq, [heap |-> h, ptr |-> out_seq.data], out_seq.capacity)

\* A resize_to_at_least that leaves the added elements as realloc gave them.
Defaulted_Uninit(m, from, n) == Outcome(m.heap, Header(m.ptr, n, n), FALSE, FALSE)

\* Lines 279-288: the elements from the old capacity on are written with
\* T::default(), and the header takes the new buffer, size and capacity.
Defaulted(m, from, n) ==
    Outcome([m.heap EXCEPT ![m.ptr].cells =
                [i \in 1..n |-> IF i > from THEN 0 ELSE m.heap[m.ptr].cells[i]]],
            Header(m.ptr, n, n), FALSE, FALSE)

\* Sequence::resize_to_at_least: failed is panic!("realloc failed").
resize_to_at_least(h, hdr, n, ok) ==
    IF hdr.capacity < n
    THEN IF ~ok THEN Outcome(h, hdr, TRUE, FALSE)
         ELSE IF hdr.data = 0 THEN Defaulted(Malloc(h, n), hdr.capacity, n)
         ELSE Defaulted(Realloc(h, hdr.data, n), hdr.capacity, n)
    ELSE Outcome(h, hdr, FALSE, FALSE)

\* Sequence::as_slice: the first size elements behind data.
as_slice(h, hdr) ==
    IF hdr.size = 0 THEN <<>> ELSE SubSeq(h[hdr.data].cells, 1, hdr.size)

\* std::slice::from_raw_parts(self.data, self.size), as as_slice and
\* as_mut_slice call it.  A null data pointer breaks its precondition, which
\* is undefined behaviour: the build returns the empty slice, or stops the
\* process where it checks the precondition.
from_raw_parts(h, data, size) ==
    IF data = 0
    THEN {[aborts |-> FALSE, slice |-> <<>>], [aborts |-> TRUE, slice |-> <<>>]}
    ELSE {[aborts |-> FALSE, slice |-> SubSeq(h[data].cells, 1, size)]}

\* seq[i] = v through DerefMut (i is 0-based, as in the source).
IndexAssign(h, hdr, i, v) == [h EXCEPT ![hdr.data].cells[i + 1] = v]

\* ------------------------------------------------- SequenceIterator
\* SequenceIterator { seq, idx }
Iterator(hdr, i) == [seq |-> hdr, idx |-> i]

\* IntoIterator for Sequence<T>::into_iter
into_iter(hdr) == Iterator(hdr, 0)

\* next with the read and the zeroing write in the wrong order.
next_ReadAfterZero(h, it) ==
    IF it.idx >= it.seq.size
    THEN [heap |-> h, it |-> it, some |-> FALSE, elem |-> 0]
    ELSE [heap |-> [h EXCEPT ![it.seq.data].cells[it.idx + 1] = 0],
          it |-> Iterator(it.seq, it.idx + 1),
          some |-> TRUE,
          elem |-> 0]

\* next without the zeroing write: the slot keeps the element it gave away.
next_KeepsSlot(h, it) ==
    IF it.idx >= it.seq.size
    THEN [heap |-> h, it |-> it, some |-> FALSE, elem |-> 0]
    ELSE [heap |-> h,
          it |-> Iterator(it.seq, it.idx + 1),
          some |-> TRUE,
          elem |-> h[it.seq.data].cells[it.idx + 1]]

\* Iterator::next: reads the element out and zeroes its slot.
next(h, it) ==
    IF it.idx >= it.seq.size
    THEN [heap |-> h, it |-> it, some |-> FALSE, elem |-> 0]
    ELSE [heap |-> [h EXCEPT ![it.seq.data].cells[it.idx + 1] = 0],
          it |-> Iterator(it.seq, it.idx + 1),
          some |-> TRUE,
          elem |-> h[it.seq.data].cells[it.idx + 1]]

\* Iterator::size_hint: the lower bound (the upper bound is Some of the same).
size_hint(it) == (it.seq.size + 1) - it.idx

\* ExactSizeIterator::len
len(it) == (it.seq.size + 1) - it.idx

\* ------------------------------------------------------- Sequence<T>
\* The if around the backend call in new and clone: false is the panic.
OrPanic(r, nullWrite) == Outcome(r.heap, r.hdr, ~r.ret, nullWrite)

InitOrPanic(r) == OrPanic(r, r.nullWrite)

\* Sequence::new: failed is the panic!("Sequence initialization failed").
SequenceNew(h, n, ok) == InitOrPanic(sequence_init(h, SequenceDefault, n, ok))

\* Clone for Sequence<T>::clone: failed is panic!("Cloning Sequence failed").
SequenceClone(h, hdr, ok) == OrPanic(sequence_copy(h, hdr, SequenceDefault, ok), FALSE)

\* A drop that forgets the backend's fini.
SequenceDrop_Leak(h, hdr) == h

\* Drop for Sequence<T>::drop
SequenceDrop(h, hdr) == sequence_fini(h, hdr).heap

\* <[T]>::eq: the lengths, then the elements pair by pair.
slice_eq(a, b) == Len(a) = Len(b) /\ \A i \in 1..Len(a) : a[i] = b[i]

\* <[T]>::cmp: the first pair that differs decides, then the lengths.
RECURSIVE slice_cmp(_, _)
slice_cmp(a, b) ==
    IF a = <<>> \/ b = <<>>
    THEN IF Len(a) < Len(b) THEN "Less" ELSE IF Len(a) > Len(b) THEN "Greater" ELSE "Equal"
    ELSE IF Head(a) < Head(b) THEN "Less"
    ELSE IF Head(a) > Head(b) THEN "Greater"
    ELSE slice_cmp(Tail(a), Tail(b))

\* PartialEq for Sequence<T>::eq: self.as_slice().eq(other.as_slice()), for
\* each outcome of the two as_slice calls.
eq(h, self, other) ==
    {[aborts |-> a.aborts \/ b.aborts, value |-> slice_eq(a.slice, b.slice)] :
        a \in from_raw_parts(h, self.data, self.size),
        b \in from_raw_parts(h, other.data, other.size)}

\* Ord for Sequence<T>::cmp: self.as_slice().cmp(other.as_slice()).
cmp(h, self, other) ==
    {[aborts |-> a.aborts \/ b.aborts, value |-> slice_cmp(a.slice, b.slice)] :
        a \in from_raw_parts(h, self.data, self.size),
        b \in from_raw_parts(h, other.data, other.size)}

\* The loop of the resize closure:
\*   for (i, elem) in old_seq.into_iter().enumerate().take(new_size) { seq[i] = elem; }
\* n is what Take still lets through; returns the heap and the old iterator.
RECURSIVE ResizeLoop(_, _, _, _, _)
RECURSIVE ResizeMove(_, _, _, _)
ResizeMove(r, dst, i, n) ==
    IF ~r.some THEN [heap |-> r.heap, it |-> r.it]
    ELSE ResizeLoop(IndexAssign(r.heap, dst, i, r.elem), r.it, dst, i + 1, n - 1)

ResizeLoop(h, it, dst, i, n) ==
    IF n = 0 THEN [heap |-> h, it |-> it]
    ELSE ResizeMove(next(h, it), dst, i, n)

\* The end of the closure: the old sequence is dropped with its iterator.
ResizeEnd(moved, hdr) == Outcome(SequenceDrop(moved.heap, moved.it.seq), hdr, FALSE, FALSE)

\* A resize that carries on with the old sequence when the allocation failed.
ResizeInto_Swallow(fresh, h, hdr, new_size) ==
    IF fresh.failed THEN Outcome(h, hdr, FALSE, FALSE)
    ELSE ResizeEnd(ResizeLoop(fresh.heap, into_iter(hdr), fresh.hdr, 0, new_size), fresh.hdr)

ResizeInto(fresh, h, hdr, new_size) ==
    IF fresh.failed THEN Outcome(h, hdr, TRUE, fresh.nullWrite)
    ELSE ResizeEnd(ResizeLoop(fresh.heap, into_iter(hdr), fresh.hdr, 0, new_size), fresh.hdr)

\* A resize that replaces the sequence and does not move the old elements.
ResizeInto_NoMove(fresh, h, hdr, new_size) ==
    IF fresh.failed THEN Outcome(h, hdr, TRUE, fresh.nullWrite)
    ELSE Outcome(SequenceDrop(fresh.heap, hdr), fresh.hdr, FALSE, FALSE)

resize_NoMove(h, hdr, new_size, ok) ==
    ResizeInto_NoMove(SequenceNew(h, new_size, ok), h, hdr, new_size)

\* The resize closure of extend: a fresh sequence of new_size elements takes
\* the place of seq, the old elements are moved over, and the old sequence
\* is dropped with its iterator.
resize(h, hdr, new_size, ok) == ResizeInto(SequenceNew(h, new_size, ok), h, hdr, new_size)

\* usize::next_power_of_two
RECURSIVE PowerOfTwoFrom(_, _)
PowerOfTwoFrom(p, n) == IF p >= n THEN p ELSE PowerOfTwoFrom(2 * p, n)

\* A growth by one element instead of to a power of two.
next_power_of_two_PlusOne(n) == n

next_power_of_two(n) == PowerOfTwoFrom(1, n)

\* --------------------------------------------- the source of an extend
\* What extend is handed: a list with the lower bound it reports (a Vec
\* reports its length), or a SequenceIterator; BoundedSequence wraps either
\* in Iterator::take.
ListSource(items, hint) ==
    [kind |-> "list", items |-> items, hint |-> hint, it |-> Iterator(SequenceDefault, 0),
     limited |-> FALSE, take |-> 0]

IterSource(it) ==
    [kind |-> "iter", items |-> <<>>, hint |-> 0, it |-> it, limited |-> FALSE, take |-> 0]

\* A take that lets one element too many through.
TakeSource_OneMore(src, n) == [src EXCEPT !.limited = TRUE, !.take = n + 1]

\* iter.into_iter().take(n)
TakeSource(src, n) == [src EXCEPT !.limited = TRUE, !.take = n]

\* Take::size_hint over the inner lower bound.
TakeHint(src, lower) ==
    IF ~src.limited THEN lower
    ELSE IF src.take = 0 THEN 0
    ELSE Min(lower, src.take)

\* size_hint().0 of the source.
SourceHint(src) == TakeHint(src, IF src.kind = "list" THEN src.hint ELSE size_hint(src.it))

Yielded(h, src, some, elem) == [heap |-> h, src |-> src, some |-> some, elem |-> elem]

YieldedByIter(r, src, t) == Yielded(r.heap, [src EXCEPT !.it = r.it, !.take = t], r.some, r.elem)

\* next() of the inner source; t is what Take lets through afterwards.
InnerNext(h, src, t) ==
    IF src.kind = "list"
    THEN IF src.items = <<>>
         THEN Yielded(h, [src EXCEPT !.take = t], FALSE, 0)
         ELSE Yielded(h, [src EXCEPT !.items = Tail(src.items), !.take = t], TRUE,
                      Head(src.items))
    ELSE YieldedByIter(next(h, src.it), src, t)

\* next() of the source.
SourceNext(h, src) ==
    IF src.limited /\ src.take = 0 THEN Yielded(h, src, FALSE, 0)
    ELSE InnerNext(h, src, IF src.limited THEN src.take - 1 ELSE src.take)

\* Dropping the source once the for loop is over: an iterator source drops
\* the sequence it owns.
SourceDrop(h, src) == IF src.kind = "iter" THEN SequenceDrop(h, src.it.seq) ELSE h

\* ------------------------------------------------- Extend for Sequence
\* A pre-grow without the test for a lower bound of zero.
\* An extend that ignores the lower bound and leaves all growth to the loop.
ExtendPreGrow_Never(h, hdr, src, ok) == Outcome(h, hdr, FALSE, FALSE)

ExtendPreGrow_Always(h, hdr, src, ok) == resize(h, hdr, hdr.size + SourceHint(src), ok)

\* Lines 143-159: the pre-grow by the source's lower bound.
ExtendPreGrow(h, hdr, src, ok) ==
    IF SourceHint(src) > 0
    THEN resize(h, hdr, hdr.size + SourceHint(src), ok)
    ELSE Outcome(h, hdr, FALSE, FALSE)

\* self[cur_idx] = item, unless the resize before it panicked.
Stored(grown, cur_idx, item) ==
    IF grown.failed THEN grown
    ELSE [grown EXCEPT !.heap = IndexAssign(grown.heap, grown.hdr, cur_idx, item)]

\* Lines 160-173: one turn of the for loop with the item the source gave.
ExtendStore(h, hdr, cur_idx, item, ok) ==
    Stored(IF cur_idx = hdr.size
           THEN resize(h, hdr, next_power_of_two(hdr.size + 1), ok)
           ELSE Outcome(h, hdr, FALSE, FALSE),
           cur_idx, item)

\* An extend without the shrink at its end.
ExtendShrink_Skip(h, hdr, cur_idx, ok) == Outcome(h, hdr, FALSE, FALSE)

\* A shrink that lets one unused slot stay.
ExtendShrink_OffByOne(h, hdr, cur_idx, ok) ==
    IF cur_idx + 1 < hdr.size
    THEN resize(h, hdr, cur_idx, ok)
    ELSE Outcome(h, hdr, FALSE, FALSE)

\* Lines 174-177: shrink to fit.
ExtendShrink(h, hdr, cur_idx, ok) ==
    IF cur_idx < hdr.size
    THEN resize(h, hdr, cur_idx, ok)
    ELSE Outcome(h, hdr, FALSE, FALSE)

\* ------------------------------------------------ BoundedSequence<T, N>
BoundsResult(h, hdr, err, n, bound, failed, nullWrite) ==
    [heap |-> h, hdr |-> hdr, err |-> err, len |-> n, upper_bound |-> bound,
     failed |-> failed, nullWrite |-> nullWrite]

InitOrPanicBounded(r) == BoundsResult(r.heap, r.hdr, FALSE, 0, 0, ~r.ret, r.nullWrite)

\* A try_new that already rejects len = N.
BoundedTryNew_AtBound(h, n, ok) ==
    IF n >= N
    THEN BoundsResult(h, SequenceDefault, TRUE, n, N, FALSE, FALSE)
    ELSE InitOrPanicBounded(sequence_init(h, SequenceDefault, n, ok))

\* BoundedSequence::try_new: err is Err(SequenceExceedsBoundsError { len, upper_bound }),
\* failed is panic!("BoundedSequence initialization failed").
BoundedTryNew(h, n, ok) ==
    IF n > N
    THEN BoundsResult(h, SequenceDefault, TRUE, n, N, FALSE, FALSE)
    ELSE InitOrPanicBounded(sequence_init(h, SequenceDefault, n, ok))

\* Result::unwrap: an Err is a panic.
Unwrap(r) == Outcome(r.heap, r.hdr, r.err \/ r.failed, r.nullWrite)

\* BoundedSequence::new: try_new(len).unwrap().
BoundedNew(h, n, ok) == Unwrap(BoundedTryNew(h, n, ok))

\* seq.clone_from_slice(slice) on a sequence of the slice's length.
RECURSIVE CloneFromSlice(_, _, _, _)
CloneFromSlice(h, hdr, slice, i) ==
    IF i >= Len(slice) THEN h
    ELSE CloneFromSlice(IndexAssign(h, hdr, i, slice[i + 1]), hdr, slice, i + 1)

\* The ? after try_new, then clone_from_slice.
FilledFrom(r, slice) ==
    IF r.err \/ r.failed THEN r
    ELSE [r EXCEPT !.heap = CloneFromSlice(r.heap, r.hdr, slice, 0)]

\* TryFrom<&[T]> for BoundedSequence
TryFromSlice(h, slice, ok) == FilledFrom(BoundedTryNew(h, Len(slice), ok), slice)

\* A length test that already rejects a Vec of N elements.
TryFromVecFails_AtBound(v) == Len(v) >= N

\* The length test of TryFrom<Vec<T>> for BoundedSequence.
TryFromVecFails(v) == Len(v) > N

\* An extend that hands the source on as it is.
BoundedSource_NoTake(hdr, src) == src

\* What BoundedSequence::extend hands to the inner extend.
BoundedSource(hdr, src) == TakeSource(src, N - hdr.size)

\* The drop of the inner field, after the drop of the wrapper.
InnerDrop(first) == SequenceDrop(first.heap, first.hdr)

\* Drop for BoundedSequence: sequence_fini on the inner sequence, and then
\* the inner sequence's own drop.
BoundedDrop(h, hdr) == InnerDrop(sequence_fini(h, hdr))

\* The headers sequence_fini is called with when a Sequence is dropped.
SequenceDropCalls(h, hdr) == <<hdr>>

\* The headers sequence_fini is called with when a BoundedSequence is
\* dropped: by its own drop, and then by the drop of its inner field.
BoundedDropCalls(h, hdr) == <<hdr>> \o SequenceDropCalls(h, sequence_fini(h, hdr).hdr)

\* IntoIterator for BoundedSequence: the inner sequence is swapped for an
\* empty one, which is what the drop of self then finalizes.
BoundedIntoIter(h, hdr) ==
    [heap |-> BoundedDrop(h, SequenceDefault), it |-> Iterator(hdr, 0)]

\* ------------------------------------------------------------- state
VARIABLES heap, slot, iter, itLog, ext, last, fatal, ctx

vars == <<heap, slot, iter, itLog, ext, last, fatal, ctx>>

seqVars == <<heap, slot, iter, itLog, ext, last, fatal>>

NoValue == [kind |-> "none", hdr |-> SequenceDefault]

NoIter == [live |-> FALSE, seq |-> SequenceDefault, idx |-> 0]

NoItLog == [orig |-> <<>>, yielded |-> <<>>, sawNone |-> FALSE]

IdleExt ==
    [pc |-> "idle", target |-> "x", src |-> ListSource(<<>>, 0), cur_idx |-> 0,
     pre |-> <<>>, preHdr |-> SequenceDefault, given |-> <<>>, hint |-> 0, resizes |-> 0]

Last(op, res, n, bound, arg) == [op |-> op, res |-> res, len |-> n, bound |-> bound, arg |-> arg]

NoLast == Last("none", "ok", 0, 0, <<>>)

\* ------------------------------------------------- rclrs::Context
\* The rcl_ret_t values the foreign calls answer with: RCL_RET_OK,
\* RCL_RET_ERROR, RCL_RET_BAD_ALLOC, RCL_RET_INVALID_ARGUMENT and
\* RCL_RET_INVALID_ROS_ARGS.
RclRet == {0, 1, 10, 11, 1003}

\* The argument lists Context::new is given: none, arguments without ROS
\* arguments, a valid remapping rule, an invalid remapping rule, an argument
\* with an interior NUL.
ArgLists == {"empty", "plain", "ros_args", "invalid_ros_args", "interior_nul"}

\* ToResult::ok on an rcl_ret_t.
ToResult_ok(ret) == ret = 0

\* What rcl_init may answer for an argument list.
rcl_init_rets(args) == IF args = "invalid_ros_args" THEN {1003} ELSE {0, 1, 10, 11}

\* The handle rcl_init leaves: initialized on success, zero otherwise.
rcl_init(ret) == IF ToResult_ok(ret) THEN "valid" ELSE "zero"

rcl_context_is_valid(handle) == handle = "valid"

\* rcl_shutdown and rcl_context_fini: each is an error without effect on a
\* handle that is not in the state it expects.
rcl_shutdown(handle) == IF handle = "valid" THEN "shutdown" ELSE handle

rcl_context_fini(handle) == IF handle = "shutdown" THEN "finalized" ELSE handle

\* A foreign call on the handle, as the trace of calls records it.
Call(fn, on) == [fn |-> fn, on |-> on]

CtxResult(kind, code) == [kind |-> kind, code |-> code]

NoContext ==
    [pc |-> "none", args |-> "empty", handle |-> "zero",
     rets |-> [options_init |-> 0 - 1, init |-> 0 - 1, options_fini |-> 0 - 1],
     calls |-> <<>>, result |-> CtxResult("none", 0), okval |-> "none",
     held |-> FALSE, nodes |-> 0]

\* Drop for rcl_context_t, run when the last owner of the handle goes.
DropHandle(c) ==
    [c EXCEPT !.calls = @ \o <<Call("rcl_shutdown", c.handle),
                                Call("rcl_context_fini", rcl_shutdown(c.handle))>>,
              !.handle = rcl_context_fini(rcl_shutdown(c.handle))]

\* A return of Err from Context::new: the context it made is dropped.
ReturnErr(c, code) == [DropHandle(c) EXCEPT !.pc = "gone", !.result = CtxResult("err", code)]

\* A Context::new that checks the result of rcl_init before that of the fini.
ContextNewChecks_InitFirst(ret_init, ret_fini) ==
    IF ~ToResult_ok(ret_init) THEN CtxResult("err", ret_init)
    ELSE IF ~ToResult_ok(ret_fini) THEN CtxResult("err", ret_fini)
    ELSE CtxResult("ok", 0)

\* Lines 92-97: rcl_init_options_fini(..).ok()?, then ret.ok()?, then Ok.
ContextNewChecks(ret_init, ret_fini) ==
    IF ~ToResult_ok(ret_fini) THEN CtxResult("err", ret_fini)
    ELSE IF ~ToResult_ok(ret_init) THEN CtxResult("err", ret_init)
    ELSE CtxResult("ok", 0)

Init ==
    /\ ctx = NoContext
    /\ heap = EmptyHeap
    /\ slot = [p \in Slots |-> NoValue]
    /\ iter = NoIter
    /\ itLog = NoItLog
    /\ ext = IdleExt
    /\ last = NoLast
    /\ fatal = "none"

\* No operation starts while another runs or after the process died.
Ready == fatal = "none" /\ ext.pc # "loop"

\* How a failed backend call ends the process: the panic, or the fault of
\* the write through the null pointer when the build keeps that write.
FatalOutcomes(r) == IF r.nullWrite THEN {"panic", "segv"} ELSE {"panic"}

Dies(r, op) ==
    /\ fatal' \in FatalOutcomes(r)
    /\ last' = Last(op, "fatal", 0, 0, <<>>)
    /\ UNCHANGED <<heap, slot, iter, itLog, ext>>

Value(kind, hdr) == [kind |-> kind, hdr |-> hdr]

View(p) == as_slice(heap, slot[p].hdr)

\* ------------------------------------------------------ constructors
SeqNew(p, n, ok) ==
    /\ Ready /\ slot[p].kind = "none"
    /\ LET r == SequenceNew(heap, n, ok)
       IN  IF r.failed THEN Dies(r, "new")
           ELSE /\ heap' = r.heap
                /\ slot' = [slot EXCEPT ![p] = Value("seq", r.hdr)]
                /\ last' = Last("new", "ok", n, 0, <<>>)
                /\ ext' = IdleExt
                /\ UNCHANGED <<iter, itLog, fatal>>
    /\ UNCHANGED ctx

SeqDefault(p) ==
    /\ Ready /\ slot[p].kind = "none"
    /\ slot' = [slot EXCEPT ![p] = Value("seq", SequenceDefault)]
    /\ last' = Last("default", "ok", 0, 0, <<>>)
    /\ ext' = IdleExt
    /\ UNCHANGED <<heap, iter, itLog, fatal>>
    /\ UNCHANGED ctx

BoundedDefault(p) ==
    /\ Ready /\ slot[p].kind = "none"
    /\ slot' = [slot EXCEPT ![p] = Value("bseq", Header(0, 0, 0))]
    /\ last' = Last("bdefault", "ok", 0, 0, <<>>)
    /\ ext' = IdleExt
    /\ UNCHANGED <<heap, iter, itLog, fatal>>
    /\ UNCHANGED ctx

BTryNew(p, n, ok) ==
    /\ Ready /\ slot[p].kind = "none"
    /\ LET r == BoundedTryNew(heap, n, ok)
       IN  IF r.failed THEN Dies(r, "try_new")
           ELSE IF r.err
           THEN /\ last' = Last("try_new", "err", r.len, r.upper_bound, <<>>)
                /\ ext' = IdleExt
                /\ UNCHANGED <<heap, slot, iter, itLog, fatal>>
           ELSE /\ heap' = r.heap
                /\ slot' = [slot EXCEPT ![p] = Value("bseq", r.hdr)]
                /\ last' = Last("try_new", "ok", n, 0, <<>>)
                /\ ext' = IdleExt
                /\ UNCHANGED <<iter, itLog, fatal>>
    /\ UNCHANGED ctx

BNew(p, n, ok) ==
    /\ Ready /\ slot[p].kind = "none"
    /\ LET r == BoundedNew(heap, n, ok)
       IN  IF r.failed
           THEN /\ fatal' \in FatalOutcomes(r)
                /\ last' = Last("bnew", "fatal", n, 0, <<>>)
                /\ UNCHANGED <<heap, slot, iter, itLog, ext>>
           ELSE /\ heap' = r.heap
                /\ slot' = [slot EXCEPT ![p] = Value("bseq", r.hdr)]
                /\ last' = Last("bnew", "ok", n, 0, <<>>)
                /\ ext' = IdleExt
                /\ UNCHANGED <<iter, itLog, fatal>>
    /\ UNCHANGED ctx

BTryFromSlice(p, slice, ok) ==
    /\ Ready /\ slot[p].kind = "none"
    /\ LET r == TryFromSlice(heap, slice, ok)
       IN  IF r.failed THEN Dies(r, "try_from_slice")
           ELSE IF r.err
           THEN /\ last' = Last("try_from_slice", "err", r.len, r.upper_bound, slice)
                /\ ext' = IdleExt
                /\ UNCHANGED <<heap, slot, iter, itLog, fatal>>
           ELSE /\ heap' = r.heap
                /\ slot' = [slot EXCEPT ![p] = Value("bseq", r.hdr)]
                /\ last' = Last("try_from_slice", "ok", Len(slice), 0, slice)
                /\ ext' = IdleExt
                /\ UNCHANGED <<iter, itLog, fatal>>
    /\ UNCHANGED ctx

\* ------------------------------------------- access, clone, into_iter, drop
Assign(p, i, v) ==
    /\ Ready /\ slot[p].kind # "none" /\ i < slot[p].hdr.size
    /\ heap' = IndexAssign(heap, slot[p].hdr, i, v)
    /\ last' = Last("assign", "ok", 0, 0, <<>>)
    /\ ext' = IdleExt
    /\ UNCHANGED <<slot, iter, itLog, fatal>>
    /\ UNCHANGED ctx

\* seq.resize_to_at_least(n)
ResizeToAtLeast(p, n, ok) ==
    /\ Ready /\ slot[p].kind = "seq"
    /\ LET r == resize_to_at_least(heap, slot[p].hdr, n, ok)
       IN  IF r.failed THEN Dies(r, "resize_to_at_least")
           ELSE /\ heap' = r.heap
                /\ slot' = [slot EXCEPT ![p].hdr = r.hdr]
                /\ last' = Last("resize_to_at_least", "ok", n, 0, View(p))
                /\ ext' = IdleExt
                /\ UNCHANGED <<iter, itLog, fatal>>
    /\ UNCHANGED ctx

\* T::sequence_copy(&x, &mut y): the backend's copy between two sequences
\* the caller holds; its boolean is the result.
CopyInto(ok) ==
    /\ Ready /\ slot["x"].kind = "seq" /\ slot["y"].kind = "seq" /\ HasFreeId(heap)
    /\ LET r == sequence_copy(heap, slot["x"].hdr, slot["y"].hdr, ok)
       IN  /\ heap' = r.heap
           /\ slot' = [slot EXCEPT !["y"].hdr = r.hdr]
           /\ last' = Last("copy", IF r.ret THEN "true" ELSE "false", 0, 0, <<>>)
    /\ ext' = IdleExt
    /\ UNCHANGED <<iter, itLog, fatal>>
    /\ UNCHANGED ctx

\* BoundedSequence derives Clone, which clones the inner sequence.
Clone(p, q, ok) ==
    /\ Ready /\ slot[p].kind # "none" /\ slot[q].kind = "none"
    /\ LET r == SequenceClone(heap, slot[p].hdr, ok)
       IN  IF r.failed THEN Dies(r, "clone")
           ELSE /\ heap' = r.heap
                /\ slot' = [slot EXCEPT ![q] = Value(slot[p].kind, r.hdr)]
                /\ last' = Last("clone", "ok", 0, 0, <<>>)
                /\ ext' = IdleExt
                /\ UNCHANGED <<iter, itLog, fatal>>
    /\ UNCHANGED ctx

IntoIter(p) ==
    /\ Ready /\ slot[p].kind # "none" /\ ~iter.live
    /\ LET r == IF slot[p].kind = "bseq" THEN BoundedIntoIter(heap, slot[p].hdr)
                ELSE [heap |-> heap, it |-> into_iter(slot[p].hdr)]
       IN  /\ heap' = r.heap
           /\ iter' = [live |-> TRUE, seq |-> r.it.seq, idx |-> r.it.idx]
    /\ itLog' = [orig |-> View(p), yielded |-> <<>>, sawNone |-> FALSE]
    /\ slot' = [slot EXCEPT ![p] = NoValue]
    /\ last' = IF slot[p].kind = "bseq"
               THEN Last("binto_iter", "ok", Len(BoundedDropCalls(heap, SequenceDefault)), 0, <<>>)
               ELSE Last("into_iter", "ok", 0, 0, <<>>)
    /\ ext' = IdleExt
    /\ UNCHANGED fatal
    /\ UNCHANGED ctx

IterNext ==
    /\ Ready /\ iter.live
    /\ LET r == next(heap, Iterator(iter.seq, iter.idx))
       IN  /\ heap' = r.heap
           /\ iter' = [live |-> TRUE, seq |-> r.it.seq, idx |-> r.it.idx]
           /\ itLog' = IF r.some THEN [itLog EXCEPT !.yielded = Append(@, r.elem)]
                       ELSE [itLog EXCEPT !.sawNone = TRUE]
           /\ last' = Last("next", IF r.some THEN "some" ELSE "none", 0, 0, <<>>)
    /\ ext' = IdleExt
    /\ UNCHANGED <<slot, fatal>>
    /\ UNCHANGED ctx

DropValue(p) ==
    /\ Ready /\ slot[p].kind # "none"
    /\ heap' = IF slot[p].kind = "bseq" THEN BoundedDrop(heap, slot[p].hdr)
               ELSE SequenceDrop(heap, slot[p].hdr)
    /\ slot' = [slot EXCEPT ![p] = NoValue]
    /\ last' = IF slot[p].kind = "bseq"
               THEN Last("bdrop", "ok", Len(BoundedDropCalls(heap, slot[p].hdr)), 0, <<>>)
               ELSE Last("drop", "ok", Len(SequenceDropCalls(heap, slot[p].hdr)), 0, <<>>)
    /\ ext' = IdleExt
    /\ UNCHANGED <<iter, itLog, fatal>>
    /\ UNCHANGED ctx

\* Dropping the iterator drops the sequence it holds.
DropIter ==
    /\ Ready /\ iter.live
    /\ heap' = SequenceDrop(heap, iter.seq)
    /\ iter' = NoIter
    /\ itLog' = NoItLog
    /\ last' = Last("drop_iter", "ok", Len(SequenceDropCalls(heap, iter.seq)), 0, <<>>)
    /\ ext' = IdleExt
    /\ UNCHANGED <<slot, fatal>>
    /\ UNCHANGED ctx

\* ------------------------------------------------------------ extend
\* The elements a source is still going to yield when it is not cut short.
SourceItems(h, src) ==
    IF src.kind = "list" THEN src.items
    ELSE IF src.it.idx >= src.it.seq.size THEN <<>>
    ELSE SubSeq(h[src.it.seq.data].cells, src.it.idx + 1, src.it.seq.size)

\* The start of an extend of the value (kind, hdr) in slot p: BoundedSequence
\* wraps the source in take(N - size), then Sequence::extend runs up to its
\* for loop.
BeginExtend(p, kind, h, hdr, src, ok, op) ==
    LET inner == IF kind = "bseq" THEN BoundedSource(hdr, src) ELSE src
        r == ExtendPreGrow(h, hdr, inner, ok)
    IN  IF r.failed THEN Dies(r, op)
        ELSE /\ heap' = r.heap
             /\ slot' = [slot EXCEPT ![p] = Value(kind, r.hdr)]
             /\ ext' = [pc |-> "loop", target |-> p, src |-> inner, cur_idx |-> hdr.size,
                        pre |-> as_slice(h, hdr), preHdr |-> hdr,
                        given |-> SourceItems(h, src),
                        hint |-> SourceHint(src),
                        resizes |-> IF r.hdr # hdr THEN 1 ELSE 0]
             /\ last' = Last(op, "ok", 0, 0, IF op = "try_from_vec" THEN src.items ELSE <<>>)
             /\ UNCHANGED fatal

\* seq.extend(source) with a source that is not a SequenceIterator.
ExtendList(p, items, hint, ok) ==
    /\ Ready /\ slot[p].kind # "none"
    /\ slot[p].kind = "bseq" \/ slot[p].hdr.size + Len(items) <= MaxSize
    /\ BeginExtend(p, slot[p].kind, heap, slot[p].hdr, ListSource(items, hint), ok, "extend")
    /\ UNCHANGED <<iter, itLog>>
    /\ UNCHANGED ctx

\* seq.extend(source) with a long source that reports no lower bound, so that
\* the loop of lines 161-171 does all the growing.
ExtendLong(p, items, ok) ==
    /\ Ready /\ slot[p].kind = "seq" /\ slot[p].hdr.size <= MaxLen
    /\ BeginExtend(p, "seq", heap, slot[p].hdr, ListSource(items, 0), ok, "extend")
    /\ UNCHANGED <<iter, itLog>>
    /\ UNCHANGED ctx

\* seq.extend(it) with the SequenceIterator, which moves into the call.
ExtendIter(p, ok) ==
    /\ Ready /\ slot[p].kind # "none" /\ iter.live
    /\ slot[p].kind = "bseq" \/ slot[p].hdr.size + (iter.seq.size - iter.idx) <= MaxSize
    /\ BeginExtend(p, slot[p].kind, heap, slot[p].hdr,
                   IterSource(Iterator(iter.seq, iter.idx)), ok, "extend")
    /\ iter' = NoIter
    /\ itLog' = NoItLog
    /\ UNCHANGED ctx

\* FromIterator::from_iter (collect): new(0), then extend.
CollectList(p, kind, items, hint, ok) ==
    /\ Ready /\ slot[p].kind = "none"
    /\ LET r == IF kind = "bseq" THEN BoundedNew(heap, 0, ok) ELSE SequenceNew(heap, 0, ok)
       IN  BeginExtend(p, kind, r.heap, r.hdr, ListSource(items, hint), ok, "collect")
    /\ UNCHANGED <<iter, itLog>>
    /\ UNCHANGED ctx

CollectIter(p, kind, ok) ==
    /\ Ready /\ slot[p].kind = "none" /\ iter.live
    /\ LET r == IF kind = "bseq" THEN BoundedNew(heap, 0, ok) ELSE SequenceNew(heap, 0, ok)
       IN  BeginExtend(p, kind, r.heap, r.hdr, IterSource(Iterator(iter.seq, iter.idx)),
                       ok, "collect")
    /\ iter' = NoIter
    /\ itLog' = NoItLog
    /\ UNCHANGED ctx

\* TryFrom<Vec<T>> for BoundedSequence: the length test, then from_iter.
BTryFromVec(p, v, ok) ==
    /\ Ready /\ slot[p].kind = "none"
    /\ IF TryFromVecFails(v)
       THEN /\ last' = Last("try_from_vec", "err", Len(v), N, v)
            /\ ext' = IdleExt
            /\ UNCHANGED <<heap, slot, fatal>>
       ELSE LET r == BoundedNew(heap, 0, ok)
            IN  BeginExtend(p, "bseq", r.heap, r.hdr, ListSource(v, Len(v)), ok, "try_from_vec")
    /\ UNCHANGED <<iter, itLog>>
    /\ UNCHANGED ctx

\* One turn of the for loop of extend: the source yields an item.
ExtendItem(ok) ==
    /\ fatal = "none" /\ ext.pc = "loop"
    /\ LET p == ext.target
           r == SourceNext(heap, ext.src)
           st == ExtendStore(r.heap, slot[p].hdr, ext.cur_idx, r.elem, ok)
       IN  /\ r.some
           /\ IF st.failed
              THEN /\ fatal' \in FatalOutcomes(st)
                   /\ UNCHANGED <<heap, slot, ext, last>>
              ELSE /\ heap' = st.heap
                   /\ slot' = [slot EXCEPT ![p].hdr = st.hdr]
                   /\ ext' = [ext EXCEPT !.src = r.src,
                                         !.cur_idx = @ + 1,
                                         !.resizes = IF st.hdr # slot[p].hdr
                                                     THEN @ + 1 ELSE @]
                   /\ UNCHANGED <<last, fatal>>
    /\ UNCHANGED <<iter, itLog>>
    /\ UNCHANGED ctx

\* The source is exhausted: the loop ends, the source is dropped, and the
\* sequence is shrunk to fit.
ExtendFinish(ok) ==
    /\ fatal = "none" /\ ext.pc = "loop"
    /\ LET p == ext.target
           r == SourceNext(heap, ext.src)
           st == ExtendShrink(SourceDrop(r.heap, r.src), slot[p].hdr, ext.cur_idx, ok)
       IN  /\ ~r.some
           /\ IF st.failed
              THEN /\ fatal' \in FatalOutcomes(st)
                   /\ UNCHANGED <<heap, slot, ext, last>>
              ELSE /\ heap' = st.heap
                   /\ slot' = [slot EXCEPT ![p].hdr = st.hdr]
                   /\ ext' = [ext EXCEPT !.pc = "done",
                                         !.src = ListSource(<<>>, 0),
                                         !.resizes = IF st.hdr # slot[p].hdr
                                                     THEN @ + 1 ELSE @]
                   /\ UNCHANGED <<last, fatal>>
    /\ UNCHANGED <<iter, itLog>>
    /\ UNCHANGED ctx

\* ----------------------------------------------------- Context::new
\* Lines 56-66: the context with its zero-initialized handle is made, and
\* the arguments are turned into CStrings, which panics on an interior NUL;
\* the unwinding drops the context.
ContextNewBegin(args) ==
    /\ ctx.pc \in {"none", "gone"}
    /\ ctx' = IF args = "interior_nul"
              THEN [DropHandle([NoContext EXCEPT !.args = args])
                       EXCEPT !.pc = "panicked", !.result = CtxResult("panic", 0)]
              ELSE [NoContext EXCEPT !.pc = "options_init", !.args = args]
    /\ UNCHANGED seqVars

\* A Context::new that goes on to rcl_init whatever rcl_init_options_init
\* returned.
ContextNewOptionsInit_NoReturn(ret) ==
    /\ ctx.pc = "options_init"
    /\ ctx' = [ctx EXCEPT !.pc = "init", !.rets.options_init = ret,
                          !.calls = Append(@, Call("rcl_init_options_init", ctx.handle))]
    /\ UNCHANGED seqVars

\* Line 77: rcl_init_options_init(&mut init_options, allocator).ok()?
ContextNewOptionsInit(ret) ==
    /\ ctx.pc = "options_init"
    /\ ctx' = IF ToResult_ok(ret)
              THEN [ctx EXCEPT !.pc = "init", !.rets.options_init = ret,
                               !.calls = Append(@, Call("rcl_init_options_init", ctx.handle))]
              ELSE ReturnErr([ctx EXCEPT !.rets.options_init = ret,
                                         !.calls = Append(@, Call("rcl_init_options_init",
                                                                  ctx.handle))],
                             ret)
    /\ UNCHANGED seqVars

\* Lines 80-89: let ret = rcl_init(..)
ContextNewInit(ret) ==
    /\ ctx.pc = "init"
    /\ ret \in rcl_init_rets(ctx.args)
    /\ ctx' = [ctx EXCEPT !.pc = "options_fini", !.rets.init = ret,
                          !.calls = Append(@, Call("rcl_init", ctx.handle)),
                          !.handle = rcl_init(ret)]
    /\ UNCHANGED seqVars

\* What Context::new returns after the last foreign call.
ContextNewReturn(c, res) ==
    IF res.kind = "ok" THEN [c EXCEPT !.pc = "live", !.result = res, !.held = TRUE]
    ELSE ReturnErr(c, res.code)

\* Lines 92-97: rcl_init_options_fini, the two checks, and the return.
ContextNewOptionsFini(ret) ==
    /\ ctx.pc = "options_fini"
    /\ ctx' = ContextNewReturn(
                  [ctx EXCEPT !.rets.options_fini = ret,
                              !.calls = Append(@, Call("rcl_init_options_fini", ctx.handle))],
                  ContextNewChecks(ctx.rets.init, ret))
    /\ UNCHANGED seqVars

\* Context::ok
ContextOk ==
    /\ ctx.pc = "live" /\ ctx.held
    /\ ctx' = [ctx EXCEPT !.okval = IF rcl_context_is_valid(ctx.handle) THEN "true" ELSE "false"]
    /\ UNCHANGED seqVars

\* The handle loses an owner: the last one to go drops it.
Released(c) == IF ~c.held /\ c.nodes = 0 THEN [DropHandle(c) EXCEPT !.pc = "gone"] ELSE c

\* Context::create_node: a node that is made shares the handle.
ContextCreateNode(ret) ==
    /\ ctx.pc = "live" /\ ctx.held /\ ctx.nodes < MaxNodes
    /\ ctx' = IF ToResult_ok(ret) THEN [ctx EXCEPT !.nodes = @ + 1] ELSE ctx
    /\ UNCHANGED seqVars

\* A node goes out of scope.
NodeDrop ==
    /\ ctx.pc = "live" /\ ctx.nodes > 0
    /\ ctx' = Released([ctx EXCEPT !.nodes = @ - 1])
    /\ UNCHANGED seqVars

\* The Context goes out of scope.
ContextDrop ==
    /\ ctx.pc = "live" /\ ctx.held
    /\ ctx' = Released([ctx EXCEPT !.held = FALSE])
    /\ UNCHANGED seqVars

\* ---------------------------------------------------- specification
\* The client program: it builds its values in x, keeps clones and collected
\* sequences in y, and holds at most two values (an iterator included) at a
\* time.  A source whose size hint is not its length is only handed to a
\* sequence that is the one live value; while an iterator is live the other
\* value is left alone, and the iterator is driven by hand only when it is
\* the one live value.  Oks is what the allocator may answer.
Hints == 0..(MaxLen + 1)

LiveCount == Cardinality({p \in Slots : slot[p].kind # "none"}) + (IF iter.live THEN 1 ELSE 0)

Room == LiveCount < 2

Alone == LiveCount = 1

Shared(Oks) ==
    \/ \E p \in Slots, i \in 0..(MaxSize - 1), v \in Elem : ~iter.live /\ Assign(p, i, v)
    \/ \E ok \in Oks : ~iter.live /\ Clone("x", "y", ok)
    \/ \E p \in Slots : IntoIter(p)
    \/ Alone /\ IterNext
    \/ \E p \in Slots : DropValue(p)
    \/ DropIter
    \/ \E p \in Slots, l \in ListsUpTo(MaxLen), ok \in Oks :
           ~iter.live /\ (Alone \/ Len(l) <= 1) /\ ExtendList(p, l, Len(l), ok)
    \/ \E p \in Slots, l \in ListsUpTo(MaxLen), h \in Hints, ok \in Oks :
           Alone /\ ExtendList(p, l, h, ok)
    \/ \E p \in Slots, ok \in Oks : ExtendIter(p, ok)
    \/ \E ok \in Oks : ExtendItem(ok)
    \/ \E ok \in Oks : ExtendFinish(ok)

\* A client of Sequence<T>.
SequenceClient(Oks) ==
    \/ \E n \in 0..MaxSize, ok \in Oks : Room /\ SeqNew("x", n, ok)
    \/ Room /\ SeqDefault("x")
    \/ \E l \in ListsUpTo(MaxLen), h \in Hints, ok \in Oks :
           LiveCount = 0 /\ CollectList("y", "seq", l, h, ok)
    \/ \E ok \in Oks : CollectIter("y", "seq", ok)
    \/ Shared(Oks)

\* A client of BoundedSequence<T, N>.
BoundedClient(Oks) ==
    \/ Room /\ BoundedDefault("x")
    \/ \E n \in 0..(N + 1), ok \in Oks : Room /\ BTryNew("x", n, ok)
    \/ \E n \in 0..(N + 1), ok \in Oks : Room /\ BNew("x", n, ok)
    \/ \E l \in ListsUpTo(N + 1), ok \in Oks : LiveCount = 0 /\ BTryFromSlice("x", l, ok)
    \/ \E l \in ListsUpTo(N + 1), ok \in Oks : LiveCount = 0 /\ BTryFromVec("x", l, ok)
    \/ \E l \in ListsUpTo(MaxLen), h \in Hints, ok \in Oks :
           LiveCount = 0 /\ CollectList("y", "bseq", l, h, ok)
    \/ \E ok \in Oks : CollectIter("y", "bseq", ok)
    \/ Shared(Oks)

\* The allocator never fails.
Next == SequenceClient({TRUE})

Spec == Init /\ [][Next]_vars

NextBounded == BoundedClient({TRUE})

SpecBounded == Init /\ [][NextBounded]_vars

\* A client of Sequence<T> whose allocator may fail at any call: it makes a
\* sequence, assigns to it, clones it, extends either of the two from a
\* source with any size hint, and drops them.
NextFail ==
    \/ \E n \in 0..MaxSize, ok \in BOOLEAN : Room /\ SeqNew("x", n, ok)
    \/ \E p \in Slots, i \in 0..(MaxSize - 1), v \in Elem : Assign(p, i, v)
    \/ \E ok \in BOOLEAN : Clone("x", "y", ok)
    \/ \E p \in Slots, l \in ListsUpTo(MaxLen), h \in Hints, ok \in BOOLEAN :
           (Alone \/ (h = Len(l) /\ Len(l) <= 1)) /\ ExtendList(p, l, h, ok)
    \/ \E ok \in BOOLEAN : ExtendItem(ok)
    \/ \E ok \in BOOLEAN : ExtendFinish(ok)
    \/ \E p \in Slots : DropValue(p)

SpecFail == Init /\ [][NextFail]_vars

\* A client that appends long sources without a lower bound to one short
\* sequence.
NextGrowth ==
    \/ \E n \in 0..MaxLen : SeqNew("x", n, TRUE)
    \/ \E i \in 0..(MaxLen - 1), v \in Elem : Assign("x", i, v)
    \/ \E l \in ListsUpTo(MaxGrow) : ExtendLong("x", l, TRUE)
    \/ ExtendItem(TRUE)
    \/ ExtendFinish(TRUE)
    \/ DropValue("x")

SpecGrowth == Init /\ [][NextGrowth]_vars

\* A client that copies x into y with the backend's copy; the reallocation
\* may fail.
NextCopy ==
    \/ \E p \in Slots, n \in 0..MaxSize : SeqNew(p, n, TRUE)
    \/ \E p \in Slots, i \in 0..(MaxSize - 1), v \in Elem : Assign(p, i, v)
    \/ \E ok \in BOOLEAN : CopyInto(ok)
    \/ \E p \in Slots : DropValue(p)

SpecCopy == Init /\ [][NextCopy]_vars

\* The client of Sequence<T> with resize_to_at_least among its steps.
NextResize ==
    \/ \E p \in Slots, n \in 0..MaxSize : Alone /\ ResizeToAtLeast(p, n, TRUE)
    \/ Next

SpecResize == Init /\ [][NextResize]_vars

\* A program that makes contexts, one at a time, asks them ok() and drops
\* them; the foreign calls answer with any of their return codes.
NextContext ==
    \/ \E args \in ArgLists : ContextNewBegin(args)
    \/ \E ret \in RclRet : ContextNewOptionsInit(ret)
    \/ \E ret \in RclRet : ContextNewInit(ret)
    \/ \E ret \in RclRet : ContextNewOptionsFini(ret)
    \/ ContextOk
    \/ \E ret \in {0, 1} : ContextCreateNode(ret)
    \/ NodeDrop
    \/ ContextDrop

SpecContext == Init /\ [][NextContext]_vars

\* ============================================================ claims
ViewIn(h, hdr) == as_slice(h, hdr)

Other(p) == IF p = "x" THEN "y" ELSE "x"

ExtendDone == ext.pc = "done" /\ fatal = "none"

\* C1: a Sequence holding A, extended with a source B whose size hint is
\* exact (a Vec), has length len(A) + len(B), begins with A in order and
\* ends with B in order.
C1_ExtendAppends ==
    (ExtendDone /\ slot[ext.target].kind = "seq" /\ last.op = "extend"
        /\ ext.hint = Len(ext.given))
    => /\ slot[ext.target].hdr.size = Len(ext.pre) + Len(ext.given)
       /\ View(ext.target) = ext.pre \o ext.given

C1_Witness ==
    /\ ExtendDone /\ slot[ext.target].kind = "seq" /\ last.op = "extend"
    /\ ext.hint = Len(ext.given)
    /\ Len(ext.pre) >= 1 /\ Len(ext.given) = MaxLen
    /\ \E i \in 1..Len(ext.pre) : ext.pre[i] # 0
    /\ ext.given[1] # ext.given[2]

\* The headers that own a buffer: the two values, the iterator, and the
\* iterator an extend in progress draws from.
Owners ==
    [p \in Slots |-> slot[p].hdr.data]
    @@ ("iter" :> IF iter.live THEN iter.seq.data ELSE 0)
    @@ ("source" :> IF ext.pc = "loop" /\ ext.src.kind = "iter" THEN ext.src.it.seq.data ELSE 0)

OwnersOf(b) == {o \in DOMAIN Owners : Owners[o] = b}

\* C2: fini releases every buffer exactly once: no buffer is released twice,
\* every live buffer belongs to exactly one header (whose drop releases it),
\* no header keeps a released buffer, and nothing stays allocated once all
\* values are dropped.
C2_FiniExactlyOnce ==
    \A b \in BufIds :
        /\ heap[b].refinis = 0
        /\ heap[b].live => Cardinality(OwnersOf(b)) = 1
        /\ ~heap[b].live => OwnersOf(b) = {}

C2_Witness ==
    /\ ExtendDone /\ ext.resizes >= 2 /\ last.op = "extend"
    /\ slot["y"].kind = "none" /\ ~iter.live
    /\ Cardinality({b \in BufIds : heap[b].live}) = 1

\* C3: next() on S.into_iter() gives the elements of S in order, then None,
\* and no element after a None; collecting an iterator gives the elements
\* it had left, so the iterator of a clone of S collects to S.
C3_IterationYieldsAll ==
    /\ iter.live =>
          /\ Len(itLog.yielded) = iter.idx
          /\ itLog.yielded = Take(itLog.orig, iter.idx)
          /\ itLog.sawNone => itLog.yielded = itLog.orig
    /\ (ExtendDone /\ last.op = "collect" /\ slot[ext.target].kind = "seq")
          => View(ext.target) = ext.given

C3_Witness ==
    /\ iter.live /\ itLog.sawNone /\ last.op = "next" /\ last.res = "none"
    /\ Len(itLog.orig) = MaxSize
    /\ itLog.orig[1] # itLog.orig[2]
    /\ itLog.yielded = itLog.orig

\* C4: size_hint() and len() of a SequenceIterator are size - idx, the
\* number of elements next() is still going to yield.
C4_SizeHintExact ==
    iter.live =>
        /\ size_hint(Iterator(iter.seq, iter.idx)) = iter.seq.size - iter.idx
        /\ len(Iterator(iter.seq, iter.idx)) = iter.seq.size - iter.idx
        /\ size_hint(Iterator(iter.seq, iter.idx)) = Len(itLog.orig) - Len(itLog.yielded)

Zeros(n) == [i \in 1..n |-> 0]

BoundedAt(p) == slot[p].kind = "bseq"

\* C5: after every completed public operation on a BoundedSequence<T, N>
\* (the constructors, the conversions, collect, extend with any source,
\* clone, indexed assignment) its size is at most N.
C5_SizeAtMostN ==
    \A p \in Slots :
        (BoundedAt(p) /\ ~(ext.pc = "loop" /\ ext.target = p)) => slot[p].hdr.size <= N

C5_Witness ==
    /\ ExtendDone /\ BoundedAt(ext.target) /\ last.op = "extend"
    /\ slot[ext.target].hdr.size = N
    /\ Len(ext.pre) + Len(ext.given) > N
    /\ ext.hint = 0 /\ ext.resizes >= 2

ConversionDone ==
    /\ fatal = "none"
    /\ \/ last.op = "try_from_slice"
       \/ last.op = "try_from_vec" /\ (last.res = "err" \/ ext.pc = "done")

Unowned == {b \in BufIds : heap[b].live /\ OwnersOf(b) = {}}

\* C7: try_new(len) gives the error with len and upper_bound = N exactly when
\* len > N, and then no buffer was allocated; for len <= N it gives len
\* default elements, the sequence the unbounded new(len) makes.  new(len)
\* gives the same sequence for len <= N and takes the fatal path for len > N.
C7_TryNewBounds ==
    /\ (last.op = "try_new" /\ fatal = "none") =>
          /\ last.res = "err" <=> last.len > N
          /\ last.res = "err" =>
                /\ last.bound = N
                /\ slot["x"].kind = "none"
                /\ Unowned = {}
          /\ last.res = "ok" =>
                /\ BoundedAt("x")
                /\ slot["x"].hdr.size = last.len
                /\ View("x") = Zeros(last.len)
    /\ last.op = "bnew" =>
          /\ last.res = "fatal" <=> last.len > N
          /\ last.res = "fatal" => fatal # "none" /\ slot["x"].kind = "none"
          /\ last.res = "ok" =>
                /\ fatal = "none"
                /\ BoundedAt("x")
                /\ slot["x"].hdr.size = last.len
                /\ View("x") = Zeros(last.len)
    /\ HasFreeId(heap) =>
          \A n \in 0..(N + 1) :
              IF n > N
              THEN /\ BoundedTryNew(heap, n, TRUE).err
                   /\ BoundedTryNew(heap, n, TRUE).heap = heap
                   /\ BoundedNew(heap, n, TRUE).failed
              ELSE /\ ~BoundedTryNew(heap, n, TRUE).err
                   /\ BoundedTryNew(heap, n, TRUE).hdr = SequenceNew(heap, n, TRUE).hdr
                   /\ BoundedTryNew(heap, n, TRUE).heap = SequenceNew(heap, n, TRUE).heap
                   /\ BoundedNew(heap, n, TRUE).hdr = SequenceNew(heap, n, TRUE).hdr
                   /\ BoundedNew(heap, n, TRUE).heap = SequenceNew(heap, n, TRUE).heap

C7_Witness ==
    /\ last.op = "try_new" /\ last.res = "err" /\ fatal = "none"
    /\ last.len = N + 1 /\ last.bound = N
    /\ slot["x"].kind = "none"
    /\ BoundedAt("y") /\ slot["y"].hdr.size = N

\* C8: extend on a BoundedSequence of s elements with a source of k elements
\* keeps the s elements, appends the first min(k, N - s) of the source in
\* order and drops the rest; the size becomes min(s + k, N).
C8_BoundedExtendTruncates ==
    (ExtendDone /\ BoundedAt(ext.target)) =>
        /\ View(ext.target) = ext.pre \o Take(ext.given, N - Len(ext.pre))
        /\ slot[ext.target].hdr.size = Min(Len(ext.pre) + Len(ext.given), N)

C8_Witness ==
    /\ ExtendDone /\ BoundedAt(ext.target) /\ last.op = "extend"
    /\ Len(ext.pre) = N - 1 /\ Len(ext.given) = 2
    /\ ext.pre[1] # 0 /\ ext.given[1] # 0
    /\ View(ext.target) = Append(ext.pre, ext.given[1])

\* C9: an extend of a BoundedSequence that holds N elements, with any source,
\* leaves its header (size, capacity, data pointer) and its elements as they
\* were and replaces no buffer, from the start of the call to its end.
C9_FullExtendNoChange ==
    (ext.pc \in {"loop", "done"} /\ fatal = "none" /\ BoundedAt(ext.target)
        /\ Len(ext.pre) = N)
    => /\ slot[ext.target].hdr = ext.preHdr
       /\ View(ext.target) = ext.pre
       /\ ext.resizes = 0
       /\ heap[ext.preHdr.data].live

C9_Witness ==
    /\ ExtendDone /\ BoundedAt(ext.target) /\ last.op = "extend"
    /\ Len(ext.pre) = N /\ Len(ext.given) = MaxLen /\ ext.hint = MaxLen
    /\ ext.pre[1] # ext.pre[N]
    /\ slot[ext.target].hdr = ext.preHdr

\* The value an extend step works on.
ExtendTarget == IF ext.pc = "loop" THEN ext.target ELSE ext'.target

Untouched(p) ==
    /\ slot'[p] = slot[p]
    /\ ViewIn(heap', slot[p].hdr) = ViewIn(heap, slot[p].hdr)

\* C10: clone() of a Sequence S gives a sequence of the same size with the
\* same elements in order and leaves S as it was; the two share no buffer,
\* and an indexed assignment or an extend on one of two sequences leaves
\* the size and the elements of the other unchanged.
C10_CloneEqualIndependent ==
    [][ /\ last'.op = "clone" =>
              /\ slot'["x"] = slot["x"]
              /\ slot'["y"].hdr.size = slot["x"].hdr.size
              /\ ViewIn(heap', slot'["y"].hdr) = View("x")
              /\ ViewIn(heap', slot'["x"].hdr) = View("x")
              /\ slot'["y"].hdr.data # 0 => slot'["y"].hdr.data # slot["x"].hdr.data
        /\ last'.op = "assign" => \E p \in Slots : Untouched(p)
        /\ ((ext.pc = "loop" \/ ext'.pc = "loop") /\ slot[Other(ExtendTarget)].kind # "none")
              => Untouched(Other(ExtendTarget))
      ]_vars

C10_Witness ==
    /\ last.op = "clone" /\ fatal = "none"
    /\ slot["x"].kind = "seq" /\ slot["y"].kind = "seq"
    /\ slot["x"].hdr.size = MaxSize
    /\ View("x")[1] # View("x")[2]
    /\ View("y") = View("x")
    /\ slot["y"].hdr.data # slot["x"].hdr.data

\* C11: dropping a BoundedSequence calls the backend's fini exactly once, as
\* dropping the Sequence it wraps does; when into_iter consumes it, the
\* wrapper calls no fini and the iterator's sequence calls it once.
C11_BoundedFiniOnce ==
    /\ last.op \in {"drop", "bdrop", "drop_iter"} => last.len = 1
    /\ last.op \in {"into_iter", "binto_iter"} => last.len = 0
    /\ \A b \in BufIds : heap[b].refinis = 0

\* What the operations that have returned hold, whatever the allocator did.
ReturnedComplete ==
    /\ (ExtendDone /\ slot[ext.target].kind = "seq") =>
          /\ View(ext.target) = ext.pre \o ext.given
          /\ slot[ext.target].hdr.capacity = slot[ext.target].hdr.size
    /\ (last.op = "new" /\ last.res = "ok") =>
          /\ fatal = "none"
          /\ View("x") = Zeros(last.len)
    /\ (last.op = "clone" /\ last.res = "ok") =>
          /\ fatal = "none"
          /\ View("y") = View("x")

\* A failing backend call is a panic that leaves the sequence as it was.
FailurePanics ==
    /\ \A n \in 1..MaxSize :
          /\ SequenceNew(heap, n, FALSE).failed
          /\ SequenceNew(heap, n, FALSE).heap = heap
    /\ \A p \in Slots :
          slot[p].hdr.size > 0 =>
              /\ SequenceClone(heap, slot[p].hdr, FALSE).failed
              /\ SequenceClone(heap, slot[p].hdr, FALSE).heap = heap
    /\ \A p \in Slots, n \in 1..MaxSize :
          slot[p].kind # "none" =>
              /\ resize(heap, slot[p].hdr, n, FALSE).failed
              /\ resize(heap, slot[p].hdr, n, FALSE).heap = heap
              /\ resize(heap, slot[p].hdr, n, FALSE).hdr = slot[p].hdr

\* C12: a backend init or copy that fails inside new, clone or a step of
\* extend (pre-grow, power-of-two growth, shrink) ends the operation on the
\* fatal path: nothing runs after it (no retry), and every operation that
\* has returned holds its complete result.
C12_FailureIsFatal ==
    /\ [](FailurePanics /\ ReturnedComplete)
    /\ [](fatal # "none" => (last.res = "fatal" \/ ext.pc = "loop"))
    /\ [][fatal = "none"]_vars

C12_Witness ==
    /\ fatal # "none" /\ ext.pc = "loop" /\ last.op = "extend"
    /\ ext.cur_idx > Len(ext.pre)
    /\ Len(ext.given) > ext.cur_idx - Len(ext.pre)
    /\ slot[ext.target].hdr.size = ext.cur_idx

\* C13: when an extend of a Sequence has returned, capacity = size, and size
\* is the size before the call plus the number of elements the source
\* yielded, whatever lower bound the source reported.
C13_NoUnusedCapacity ==
    (ExtendDone /\ slot[ext.target].kind = "seq") =>
        /\ slot[ext.target].hdr.capacity = slot[ext.target].hdr.size
        /\ slot[ext.target].hdr.size = Len(ext.pre) + Len(ext.given)
        /\ slot[ext.target].hdr.data # 0 =>
              Len(heap[slot[ext.target].hdr.data].cells) = slot[ext.target].hdr.size

C13_Witness ==
    /\ ExtendDone /\ slot[ext.target].kind = "seq" /\ last.op = "extend"
    /\ ext.hint > Len(ext.given) /\ Len(ext.given) >= 1 /\ Len(ext.pre) >= 1
    /\ ext.resizes = 2
    /\ slot[ext.target].hdr.capacity = Len(ext.pre) + Len(ext.given)

\* What a caller of as_slice (or of the Deref to a slice) can get.
SliceViews(p) == from_raw_parts(heap, slot[p].hdr.data, slot[p].hdr.size)

\* C14: new(len) gives size = capacity = len and a slice view of len default
\* elements; an indexed assignment changes the assigned slot only; default()
\* gives data = null, size = 0, capacity = 0 without a buffer, and an empty
\* slice view.
C14_NewAndDefault ==
    /\ (last.op = "new" /\ last.res = "ok") =>
          /\ slot["x"].hdr.size = last.len
          /\ slot["x"].hdr.capacity = last.len
          /\ \A o \in SliceViews("x") : ~o.aborts /\ o.slice = Zeros(last.len)
    /\ last.op = "default" =>
          /\ slot["x"].hdr = Header(0, 0, 0)
          /\ Unowned = {}
          /\ \A o \in SliceViews("x") : ~o.aborts /\ o.slice = <<>>
    /\ \A p \in Slots, i \in 0..(MaxSize - 1), v \in Elem :
          (slot[p].kind = "seq" /\ i < slot[p].hdr.size) =>
              /\ ViewIn(IndexAssign(heap, slot[p].hdr, i, v), slot[p].hdr)
                     = [View(p) EXCEPT ![i + 1] = v]
              /\ ViewIn(IndexAssign(heap, slot[p].hdr, i, v), slot[Other(p)].hdr)
                     = View(Other(p))

\* The first index at which two element lists differ, or 0.
FirstDiff(a, b) ==
    LET d == {i \in 1..Min(Len(a), Len(b)) : a[i] # b[i]}
    IN  IF d = {} THEN 0 ELSE CHOOSE i \in d : \A j \in d : i <= j

\* The lexicographic order of two element lists.
Lexicographic(a, b) ==
    IF FirstDiff(a, b) # 0
    THEN IF a[FirstDiff(a, b)] < b[FirstDiff(a, b)] THEN "Less" ELSE "Greater"
    ELSE IF Len(a) < Len(b) THEN "Less"
    ELSE IF Len(a) > Len(b) THEN "Greater"
    ELSE "Equal"

BothSequences == slot["x"].kind = "seq" /\ slot["y"].kind = "seq" /\ Ready

\* C15: two sequences are equal exactly when they have the same size and the
\* same element at every index, however they were built and whatever their
\* capacities; their order is the lexicographic order of their elements, a
\* strict prefix coming before the longer sequence.
C15_EqualityAndOrder ==
    BothSequences =>
        /\ \A o \in eq(heap, slot["x"].hdr, slot["y"].hdr) :
              /\ ~o.aborts
              /\ o.value <=> (slot["x"].hdr.size = slot["y"].hdr.size /\ View("x") = View("y"))
        /\ \A o \in cmp(heap, slot["x"].hdr, slot["y"].hdr) :
              /\ ~o.aborts
              /\ o.value = Lexicographic(View("x"), View("y"))

NewReturned == ctx.result.kind \in {"ok", "err"}

AllSucceeded ==
    /\ ToResult_ok(ctx.rets.options_init)
    /\ ToResult_ok(ctx.rets.init)
    /\ ToResult_ok(ctx.rets.options_fini)

ContextOkHolds == (ctx.pc = "live" /\ ctx.okval # "none") => ctx.okval = "true"

\* C16 as stated: Context::new returns Ok exactly when rcl_init_options_init,
\* rcl_init and rcl_init_options_fini all succeed, and otherwise the failure
\* code of the first of the three, in that order, that failed; a context it
\* returned answers ok() with true.
C16_FirstFailureInCallOrder ==
    /\ NewReturned =>
          /\ ctx.result.kind = "ok" <=> AllSucceeded
          /\ ctx.result.kind = "err" =>
                ctx.result.code =
                    IF ~ToResult_ok(ctx.rets.options_init) THEN ctx.rets.options_init
                    ELSE IF ~ToResult_ok(ctx.rets.init) THEN ctx.rets.init
                    ELSE ctx.rets.options_fini
    /\ ContextOkHolds

\* C16 as amended: Context::new returns Ok exactly when the three calls
\* succeed, and otherwise the failure code of the first failed check in the
\* order the checks are made: rcl_init_options_init, rcl_init_options_fini,
\* and rcl_init last; a context it returned answers ok() with true.
C16_FirstFailureInCheckOrder ==
    /\ NewReturned =>
          /\ ctx.result.kind = "ok" <=> AllSucceeded
          /\ ctx.result.kind = "err" =>
                ctx.result.code =
                    IF ~ToResult_ok(ctx.rets.options_init) THEN ctx.rets.options_init
                    ELSE IF ~ToResult_ok(ctx.rets.options_fini) THEN ctx.rets.options_fini
                    ELSE ctx.rets.init
          /\ (ctx.args = "invalid_ros_args" /\ ctx.rets.options_fini = 0) =>
                ctx.result = CtxResult("err", ctx.rets.init)
    /\ ContextOkHolds

C16_Witness ==
    /\ NewReturned /\ ctx.result.kind = "err"
    /\ ctx.rets.options_init = 0
    /\ ctx.rets.init = 1003 /\ ctx.rets.options_fini = 10
    /\ ctx.result.code = 10

\* C17: the result of an extend of a Sequence does not depend on the lower
\* bound h the source reports (h below, at or above the number k of elements
\* it yields): the size is s + k, the first s elements are the old ones in
\* order, the last k are the yielded ones in order, and no filler slot of
\* an over-reported bound stays visible.
C17_HintIndependent ==
    (ExtendDone /\ slot[ext.target].kind = "seq") =>
        /\ slot[ext.target].hdr.size = Len(ext.pre) + Len(ext.given)
        /\ Take(View(ext.target), Len(ext.pre)) = ext.pre
        /\ \A i \in 1..Len(ext.given) : View(ext.target)[Len(ext.pre) + i] = ext.given[i]
        /\ Len(View(ext.target)) = Len(ext.pre) + Len(ext.given)

C17_Witness ==
    /\ ExtendDone /\ slot[ext.target].kind = "seq" /\ last.op = "extend"
    /\ ext.hint = 1 /\ Len(ext.given) = MaxLen /\ Len(ext.pre) = 1
    /\ ext.pre[1] # 0 /\ ext.given[MaxLen] # 0
    /\ View(ext.target) = ext.pre \o ext.given

ExactHint == ext.hint = Len(ext.given) /\ ext.hint > 0

\* C18: with a source that reports a lower bound h > 0 and yields exactly h
\* elements, extend replaces the buffer once, by one of size + h elements,
\* before the first element is stored, and neither grows nor shrinks it
\* afterwards; the old buffer is released.  With a source that reports 0 and
\* yields nothing, extend replaces no buffer and changes nothing.
C18_SingleReallocation ==
    /\ (ext.pc \in {"loop", "done"} /\ fatal = "none" /\ slot[ext.target].kind = "seq"
          /\ ExactHint) =>
          /\ ext.resizes = 1
          /\ slot[ext.target].hdr.size = Len(ext.pre) + ext.hint
          /\ slot[ext.target].hdr.capacity = Len(ext.pre) + ext.hint
          /\ slot[ext.target].hdr.data # ext.preHdr.data
          /\ ext.preHdr.data # 0 => OwnersOf(ext.preHdr.data) = {}
          /\ Unowned = {}
    /\ (ext.pc \in {"loop", "done"} /\ fatal = "none" /\ slot[ext.target].kind = "seq"
          /\ ext.hint = 0 /\ ext.given = <<>>) =>
          /\ ext.resizes = 0
          /\ slot[ext.target].hdr = ext.preHdr
          /\ View(ext.target) = ext.pre

C18_Witness ==
    /\ ExtendDone /\ slot[ext.target].kind = "seq" /\ last.op = "extend"
    /\ ExactHint /\ ext.hint = MaxLen /\ Len(ext.pre) = 1
    /\ ext.resizes = 1
    /\ slot[ext.target].hdr.capacity = 1 + MaxLen

PowersOfTwo(n) == {2 ^ e : e \in 0..n}

\* The smallest power of two that is at least n.
SmallestPowerOfTwo(n) ==
    CHOOSE p \in PowersOfTwo(n) : p >= n /\ \A q \in PowersOfTwo(n) : q >= n => p <= q

\* The ceiling of the binary logarithm of k >= 1.
CeilLog2(k) == CHOOSE e \in 0..k : 2 ^ e >= k /\ (e = 0 \/ 2 ^ (e - 1) < k)

\* A step of the loop of extend that stores one element in a Sequence.
LoopStep ==
    /\ ext.pc = "loop" /\ ext'.pc = "loop" /\ ext'.cur_idx = ext.cur_idx + 1
    /\ slot[ext.target].kind = "seq" /\ fatal' = "none"

OntoEmptyUnhinted == slot[ext.target].kind = "seq" /\ ext.pre = <<>> /\ ext.hint = 0

\* C19: in the loop of Sequence::extend an element that finds the buffer full
\* (write index = size) makes the buffer grow to the smallest power of two
\* that is at least size + 1 before it is stored, and any other element
\* leaves the buffer as it is; the element is stored at an index below the
\* size, after the elements already there.  Appending k elements without a
\* lower bound to an empty sequence takes at most ceil(log2 k) + 1 growths
\* and one shrink.
C19_PowerOfTwoGrowth ==
    /\ [][LoopStep =>
            /\ IF ext.cur_idx = slot[ext.target].hdr.size
               THEN /\ slot'[ext.target].hdr.size = SmallestPowerOfTwo(ext.cur_idx + 1)
                    /\ slot'[ext.target].hdr.capacity = slot'[ext.target].hdr.size
                    /\ ext'.resizes = ext.resizes + 1
               ELSE /\ slot'[ext.target].hdr = slot[ext.target].hdr
                    /\ ext'.resizes = ext.resizes
            /\ ext.cur_idx < slot'[ext.target].hdr.size
            /\ ViewIn(heap', slot'[ext.target].hdr)[ext.cur_idx + 1]
                   = ext.given[ext.cur_idx - Len(ext.pre) + 1]
            /\ Take(ViewIn(heap', slot'[ext.target].hdr), ext.cur_idx)
                   = Take(View(ext.target), ext.cur_idx)]_vars
    /\ []((ext.pc = "loop" /\ fatal = "none" /\ OntoEmptyUnhinted) =>
            ext.resizes <= (IF ext.cur_idx = 0 THEN 0 ELSE CeilLog2(ext.cur_idx) + 1))
    /\ []((ExtendDone /\ OntoEmptyUnhinted /\ ext.given # <<>>) =>
            ext.resizes <= CeilLog2(Len(ext.given)) + 1 + 1)

C19_Witness ==
    /\ ExtendDone /\ OntoEmptyUnhinted /\ Len(ext.given) = MaxGrow
    /\ slot[ext.target].hdr.size = MaxGrow
    /\ ext.resizes = CeilLog2(MaxGrow) + 1 + 1

\* The elements a header's buffer holds, which its fini finalizes.
Buffer(h, hdr) == IF hdr.data = 0 THEN <<>> ELSE h[hdr.data].cells

\* A buffer of the elements orig after the first i were moved out.
Drained(orig, i) == Zeros(i) \o SubSeq(orig, i + 1, Len(orig))

\* The old buffer after the closure of extend moved n elements out of it.
DrainedBy(moved, h, hdr, n) ==
    /\ moved.it.idx = Min(n, hdr.size)
    /\ Buffer(moved.heap, hdr) = Drained(Buffer(h, hdr), Min(n, hdr.size))

ResizeDrains(h, hdr, fresh, n) ==
    /\ DrainedBy(ResizeLoop(fresh.heap, into_iter(hdr), fresh.hdr, 0, n), h, hdr, n)
    /\ Take(Buffer(ResizeLoop(fresh.heap, into_iter(hdr), fresh.hdr, 0, n).heap, fresh.hdr),
            Min(n, hdr.size))
          = Take(Buffer(h, hdr), Min(n, hdr.size))

\* C20: while a sequence is iterated by value, the elements below idx were
\* given to the caller, once and in order, and their slots hold the zero
\* placeholder, and the elements from idx on are still in the buffer, which
\* the iterator alone owns.  Dropping the iterator at any idx calls fini
\* once, on a buffer that holds only the elements not yet given out; the
\* same holds of the iterator that extend's closure drains with take.
C20_ExtractedOrBuffered ==
    /\ [](iter.live =>
            /\ iter.idx <= iter.seq.size
            /\ iter.seq.size = Len(itLog.orig)
            /\ itLog.yielded = Take(itLog.orig, iter.idx)
            /\ Buffer(heap, iter.seq) = Drained(itLog.orig, iter.idx)
            /\ iter.seq.data # 0 => OwnersOf(iter.seq.data) = {"iter"})
    /\ []((ext.pc = "loop" /\ fatal = "none" /\ ext.src.kind = "iter") =>
            Take(Buffer(heap, ext.src.it.seq), ext.src.it.idx) = Zeros(ext.src.it.idx))
    /\ [][(iter.live /\ last'.op = "drop_iter") =>
            /\ last'.len = 1
            /\ Buffer(heap, iter.seq) = Drained(itLog.orig, iter.idx)
            /\ iter.seq.data # 0 => /\ ~heap'[iter.seq.data].live
                                    /\ heap'[iter.seq.data].refinis = 0]_vars
    /\ [](\A p \in Slots, n \in 0..MaxSize :
            (slot[p].kind = "seq" /\ slot[p].hdr.data # 0 /\ HasFreeId(heap) /\ fatal = "none")
               => ResizeDrains(heap, slot[p].hdr, SequenceNew(heap, n, TRUE), n))

C20_Witness ==
    /\ iter.live /\ iter.idx = 1 /\ Len(itLog.orig) = MaxSize
    /\ itLog.orig[1] = 1 /\ itLog.orig[MaxSize] = 1
    /\ Buffer(heap, iter.seq)[1] = 0 /\ Buffer(heap, iter.seq)[MaxSize] = 1
    /\ itLog.yielded = <<1>>

\* The Sequence headers the program holds: the values, the one inside the
\* iterator, and the one inside the iterator that extend is draining.
Headers ==
    {slot[p].hdr : p \in {q \in Slots : slot[q].kind # "none"}}
    \cup (IF iter.live THEN {iter.seq} ELSE {})
    \cup (IF ext.pc = "loop" /\ ext.src.kind = "iter" THEN {ext.src.it.seq} ELSE {})

WellFormed(h, hdr) ==
    /\ 0 <= hdr.size /\ hdr.size <= hdr.capacity
    /\ hdr.size > 0 =>
          /\ hdr.data # 0
          /\ h[hdr.data].live
          /\ Len(h[hdr.data].cells) >= hdr.size
          /\ \A i \in 1..hdr.size : h[hdr.data].cells[i] \in Elem

\* C21: every Sequence the program holds has 0 <= size <= capacity, and one
\* with size > 0 has a non-null data pointer to a live buffer whose first
\* size elements are initialized, after any steps of new, default, clone,
\* extend, resize_to_at_least, indexed assignment and into_iter.
C21_HeaderWellFormed == fatal = "none" => \A hdr \in Headers : WellFormed(heap, hdr)

C21_Witness ==
    /\ last.op = "resize_to_at_least" /\ last.res = "ok"
    /\ Len(last.arg) = 1 /\ last.arg[1] = 1 /\ last.len = MaxSize
    /\ slot["x"].kind = "seq" /\ slot["x"].hdr.size = MaxSize
    /\ View("x") = <<1>> \o Zeros(MaxSize - 1)
    /\ WellFormed(heap, slot["x"].hdr)

\* C22: the scalar backend's copy(source, destination) leaves the source as
\* it was.  When it returns true the destination has the source's size and
\* elements in order, and a capacity of at least that size: its old buffer
\* and capacity when they sufficed, a capacity of exactly the source's size
\* otherwise.  It returns false only when the reallocation was needed and
\* failed, and then the destination's data, size, capacity and elements are
\* as before.
C22_CopyResult ==
    [][last'.op = "copy" =>
          /\ slot'["x"] = slot["x"]
          /\ ViewIn(heap', slot'["x"].hdr) = View("x")
          /\ last'.res \in {"true", "false"}
          /\ last'.res = "true" =>
                /\ slot'["y"].hdr.size = slot["x"].hdr.size
                /\ ViewIn(heap', slot'["y"].hdr) = View("x")
                /\ slot'["y"].hdr.capacity >= slot["x"].hdr.size
                /\ IF slot["y"].hdr.capacity >= slot["x"].hdr.size
                   THEN /\ slot'["y"].hdr.capacity = slot["y"].hdr.capacity
                        /\ slot'["y"].hdr.data = slot["y"].hdr.data
                   ELSE slot'["y"].hdr.capacity = slot["x"].hdr.size
                /\ WellFormed(heap', slot'["y"].hdr)
          /\ last'.res = "false" =>
                /\ slot["y"].hdr.capacity < slot["x"].hdr.size
                /\ slot'["y"] = slot["y"]
                /\ heap' = heap
      ]_vars

C22_Witness ==
    /\ last.op = "copy" /\ last.res = "true"
    /\ slot["x"].hdr.size = 1 /\ View("x") = <<1>>
    /\ slot["y"].hdr.size = 1 /\ slot["y"].hdr.capacity = MaxSize
    /\ View("y") = <<1>>

C22_WitnessFailure ==
    /\ last.op = "copy" /\ last.res = "false"
    /\ slot["x"].hdr.size = MaxSize /\ slot["y"].hdr.size = 1

\* The calls the drop of the handle makes, in the order they were made.
DropCalls == SelectSeq(ctx.calls, LAMBDA c : c.fn \in {"rcl_shutdown", "rcl_context_fini"})

\* C23: the handle is given to rcl_shutdown and then to rcl_context_fini,
\* once each and in that order, and only a handle that rcl_init initialized
\* is given to them: on no path of Context::new does a handle whose
\* initialization failed or never ran reach either function.
C23_DropOnlyInitialized ==
    /\ DropCalls \in {<<>>, <<Call("rcl_shutdown", "valid"), Call("rcl_context_fini", "shutdown")>>}
    /\ DropCalls # <<>> => ToResult_ok(ctx.rets.init)

\* The names of the foreign calls made so far, in order.
CallNames == [i \in 1..Len(ctx.calls) |-> ctx.calls[i].fn]

\* The calls Context::new itself makes, without those of the handle's drop.
NewCalls ==
    SelectSeq(CallNames, LAMBDA f : f \notin {"rcl_shutdown", "rcl_context_fini"})

\* C24: when rcl_init_options_init succeeded, Context::new calls
\* rcl_init_options_fini exactly once, after rcl_init and before it returns
\* (and so before the drop of a context it does not return), whether
\* rcl_init succeeded or not; when rcl_init_options_init failed it calls
\* neither rcl_init nor rcl_init_options_fini.
C24_OptionsFiniOnce ==
    /\ NewReturned =>
          IF ToResult_ok(ctx.rets.options_init)
          THEN /\ NewCalls = <<"rcl_init_options_init", "rcl_init", "rcl_init_options_fini">>
               /\ Take(CallNames, 3) = NewCalls
          ELSE /\ NewCalls = <<"rcl_init_options_init">>
               /\ Take(CallNames, 1) = NewCalls
    /\ ctx.pc = "options_fini" => NewCalls = <<"rcl_init_options_init", "rcl_init">>
    /\ ctx.pc = "init" => NewCalls = <<"rcl_init_options_init">>

C24_Witness ==
    /\ NewReturned /\ ctx.result = CtxResult("err", 1003)
    /\ ctx.rets.options_init = 0 /\ ctx.rets.options_fini = 0
    /\ Len(ctx.calls) = 5
    /\ CallNames[3] = "rcl_init_options_fini" /\ CallNames[4] = "rcl_shutdown"

C24_WitnessOptionsInitFailed ==
    /\ NewReturned /\ ctx.result = CtxResult("err", 10)
    /\ ctx.rets.options_init = 10
    /\ NewCalls = <<"rcl_init_options_init">>

\* The result r of a sequence_init(seq, size) that reported success.
InitZeroFilled(r, size) ==
    /\ r.ret /\ ~r.nullWrite
    /\ r.hdr.size = size /\ r.hdr.capacity = size
    /\ ViewIn(r.heap, r.hdr) = Zeros(size)

\* C25: the scalar backend's sequence_init returns false without a write
\* through the data pointer when the foreign init failed and left data
\* null, so that the caller's panic is the only way a failed allocation
\* ends; when the foreign init succeeded, size = capacity = len and all len
\* elements are zero.
C25_InitZeroFillsAllocated ==
    /\ fatal # "segv"
    /\ HasFreeId(heap) =>
          \A size \in 0..MaxSize :
              InitZeroFilled(sequence_init(heap, SequenceDefault, size, TRUE), size)

\* C26: at every step of an extend of a BoundedSequence<T, N> (after the
\* pre-grow, after each power-of-two growth and each store, after the
\* shrink) the size of the wrapped sequence is at most N, for every
\* starting size and every source, those that report no lower bound
\* included.
C26_BoundedDuringExtend ==
    (ext.pc \in {"loop", "done"} /\ fatal = "none" /\ BoundedAt(ext.target))
        => slot[ext.target].hdr.size <= N

====
